---------------------------- MODULE Spec2Model ----------------------------
(***************************************************************************)
(* A model of src/objects/boolobject.rs and src/objects/dict.rs: the       *)
(* boolean and mapping views over the foreign runtime's objects, the       *)
(* conversions of host booleans and host associative containers into       *)
(* foreign objects, and the reference counts the conversions touch.        *)
(***************************************************************************)
EXTENDS Integers, Sequences, FiniteSets, TLC

VARIABLES
    v,        \* the host associative container (HashMap / BTreeMap) of the caller
    dict,     \* the entries of the foreign mapping the caller holds, in insertion order
    pyerr,    \* the foreign runtime's error indicator ("none" when clear)
    last,     \* the last call: its name, its arguments and what it returned
    refcnt,   \* reference count of each boolean singleton
    handles,  \* live PyObjectPtr handles per boolean singleton
    owned,    \* pointers registered as owned in the token's release pool
    converted \* whether the mapping held is the product of to_object(v)

vars == <<v, dict, pyerr, last, refcnt, handles, owned, converted>>

---------------------------------------------------------------------------
(* Bounds of the model *)

NumKeys == 2
MaxHandles == 2
InitRef == 3

(* Values the repository's tests use *)
FirstKey == 7
FirstVal == 32
SecondVal == 42

Keys == FirstKey .. (FirstKey + NumKeys - 1)
Vals == {FirstVal, SecondVal}

---------------------------------------------------------------------------
(* Addresses of foreign objects *)

NULL == 0
Py_False == 1
Py_True == 2
DictAddr == 10     \* the mapping the caller holds
MapKeyAddr == 11   \* the mapping a host container converts to when used as a key
IntBase == 100     \* the int object of value n lives at IntBase + n

Singletons == {Py_False, Py_True}

IntObj(n) == IntBase + n

Py_TYPE(p) ==
    IF p \in Singletons THEN "bool"
    ELSE IF p >= IntBase THEN "int"
    ELSE "dict"

PyBool_Check(p) == Py_TYPE(p) = "bool"

Ok(x) == [tag |-> "Ok", val |-> x, err |-> "none"]
Err(e) == [tag |-> "Err", val |-> NULL, err |-> e]

---------------------------------------------------------------------------
(* boolobject.rs *)

\* if val { ffi::Py_True() } else { ffi::Py_False() }
bool_ptr_swapped(b) == IF b THEN Py_False ELSE Py_True
bool_ptr(b) == IF b THEN Py_True ELSE Py_False

\* PyBool::is_true
is_true(p) == p = Py_True

Py_INCREF(rc, p) == [rc EXCEPT ![p] = @ + 1]
Py_DECREF(rc, p) == [rc EXCEPT ![p] = @ - 1]

Total(f) == f[Py_False] + f[Py_True]

\* references of a singleton not accounted for by a handle or a pool entry
Base(p) == refcnt[p] - handles[p] - owned[p]

\* pyobject_extract!(py, obj to bool): cast_as::<PyBool>() then is_true()
extract_bool_truthy(p) ==
    [tag |-> "Ok", val |-> (p \notin {Py_False, IntObj(0)}), err |-> "none"]
extract_bool(p) ==
    IF PyBool_Check(p)
    THEN [tag |-> "Ok", val |-> is_true(p), err |-> "none"]
    ELSE [tag |-> "Err", val |-> FALSE, err |-> "TypeError"]

\* the objects a caller may try to extract a boolean from
Objects == Singletons \cup {IntObj(0), IntObj(1), IntObj(FirstKey)} \cup {DictAddr}

DictUnchanged == UNCHANGED <<v, dict, pyerr, converted>>

\* impl ToPyObject for bool: to_object = PyObjectPtr::from_borrowed_ptr(singleton)
ToObject(b) ==
    LET p == bool_ptr(b) IN
    /\ Total(handles) < MaxHandles
    /\ refcnt' = Py_INCREF(refcnt, p)
    /\ handles' = Py_INCREF(handles, p)
    /\ last' = [op |-> "to_object", arg |-> b, ptr |-> p]
    /\ UNCHANGED owned
    /\ DictUnchanged

\* impl ToPyObject for bool: with_borrowed_ptr hands the singleton to the closure
WithBorrowedPtr(b) ==
    /\ last' = [op |-> "with_borrowed_ptr", arg |-> b, ptr |-> bool_ptr(b)]
    /\ UNCHANGED <<refcnt, handles, owned>>
    /\ DictUnchanged

\* PyBool::new: py.cast_from_ptr(singleton) registers the pointer as owned
PyBool_new(b) ==
    LET p == bool_ptr(b) IN
    /\ Base(p) > 1
    /\ owned' = Py_INCREF(owned, p)
    /\ last' = [op |-> "PyBool_new", arg |-> b, ptr |-> p]
    /\ UNCHANGED <<refcnt, handles>>
    /\ DictUnchanged

\* impl IntoPyObject for bool: PyBool::new(py, self).into()
IntoObject(b) ==
    LET p == bool_ptr(b) IN
    /\ Base(p) > 1
    /\ Total(handles) < MaxHandles
    /\ owned' = Py_INCREF(owned, p)
    /\ refcnt' = Py_INCREF(refcnt, p)
    /\ handles' = Py_INCREF(handles, p)
    /\ last' = [op |-> "into_object", arg |-> b, ptr |-> p]
    /\ DictUnchanged

\* drop of a PyObjectPtr
DropHandle(p) ==
    /\ handles[p] > 0
    /\ handles' = Py_DECREF(handles, p)
    /\ refcnt' = Py_DECREF(refcnt, p)
    /\ last' = [op |-> "drop", arg |-> FALSE, ptr |-> p]
    /\ UNCHANGED owned
    /\ DictUnchanged

\* the token's scope ends: every pointer registered as owned is released
ReleasePool ==
    /\ Total(owned) > 0
    /\ refcnt' = [p \in Singletons |-> refcnt[p] - owned[p]]
    /\ owned' = [p \in Singletons |-> 0]
    /\ last' = [op |-> "release", arg |-> FALSE, ptr |-> NULL]
    /\ UNCHANGED handles
    /\ DictUnchanged

\* extract::<bool>() on an object
Extract(p) ==
    /\ last' = [op |-> "extract", arg |-> FALSE, ptr |-> p, res |-> extract_bool(p)]
    /\ UNCHANGED <<refcnt, handles, owned>>
    /\ DictUnchanged

---------------------------------------------------------------------------
(* The foreign call surface for mapping objects.  A mapping is the sequence *)
(* of its <<key, value>> entries in insertion order.                        *)

Hashable(p) == Py_TYPE(p) # "dict"

\* position of the entry whose key equals `key`, 0 when there is none
IndexOf(d, key) ==
    IF \E i \in 1..Len(d) : d[i][1] = key
    THEN CHOOSE i \in 1..Len(d) : d[i][1] = key
    ELSE 0

RemoveAt(d, i) == [j \in 1..(Len(d) - 1) |-> IF j < i THEN d[j] ELSE d[j + 1]]

PyDict_New(oom) == [null |-> oom, dict |-> <<>>, exc |-> IF oom THEN "MemoryError" ELSE "none"]

PyDict_Copy(d, oom) == [null |-> oom, dict |-> d, exc |-> IF oom THEN "MemoryError" ELSE "none"]

PyDict_Clear(d) == <<>>

PyDict_Size(d) == Len(d)

PyDict_Contains(d, key) ==
    IF ~Hashable(key) THEN [ret |-> -1, exc |-> "TypeError"]
    ELSE IF IndexOf(d, key) # 0 THEN [ret |-> 1, exc |-> "none"]
    ELSE [ret |-> 0, exc |-> "none"]

\* returns a borrowed pointer, or NULL without setting an exception: errors
\* raised while hashing or comparing the key are suppressed
PyDict_GetItem(d, key) ==
    IF ~Hashable(key) THEN [ptr |-> NULL, error |-> TRUE]
    ELSE IF IndexOf(d, key) # 0 THEN [ptr |-> d[IndexOf(d, key)][2], error |-> FALSE]
    ELSE [ptr |-> NULL, error |-> FALSE]

PyDict_SetItem(d, key, value, oom) ==
    IF ~Hashable(key) THEN [ret |-> -1, dict |-> d, exc |-> "TypeError"]
    ELSE IF IndexOf(d, key) # 0
    THEN [ret |-> 0, exc |-> "none",
          dict |-> [d EXCEPT ![IndexOf(d, key)] = <<d[IndexOf(d, key)][1], value>>]]
    ELSE IF oom THEN [ret |-> -1, dict |-> d, exc |-> "MemoryError"]
    ELSE [ret |-> 0, dict |-> Append(d, <<key, value>>), exc |-> "none"]

PyDict_DelItem(d, key) ==
    IF ~Hashable(key) THEN [ret |-> -1, dict |-> d, exc |-> "TypeError"]
    ELSE IF IndexOf(d, key) = 0 THEN [ret |-> -1, dict |-> d, exc |-> "KeyError"]
    ELSE [ret |-> 0, dict |-> RemoveAt(d, IndexOf(d, key)), exc |-> "none"]

PyDict_Items(d, oom) == [null |-> oom, list |-> d, exc |-> IF oom THEN "MemoryError" ELSE "none"]

PyDict_Next(d, pos) ==
    IF pos < Len(d)
    THEN [ret |-> 1, pos |-> pos + 1, key |-> d[pos + 1][1], value |-> d[pos + 1][2]]
    ELSE [ret |-> 0, pos |-> pos, key |-> NULL, value |-> NULL]

---------------------------------------------------------------------------
(* Conversions of host integers, and the error bridge *)

i32_to_object(n) == IntObj(n)

extract_i32(p) == IF Py_TYPE(p) = "int" THEN Ok(p - IntBase) ELSE Err("TypeError")

\* PyErr::fetch takes the pending exception and clears the indicator
PyErr_fetch(exc) == [err |-> exc, pyerr |-> "none"]

\* what a mapping operation hands back: its result, the mapping afterwards,
\* the error indicator it leaves, whether the foreign call signalled failure,
\* and the sequence it produced (items, items_list)
Ret(res, d, e, failed, list) ==
    [res |-> res, dict |-> d, pyerr |-> e, failed |-> failed, list |-> list]

\* err::error_on_minusone
error_on_minusone(ret, exc, d) ==
    IF ret = -1
    THEN Ret(Err(PyErr_fetch(exc).err), d, PyErr_fetch(exc).pyerr, TRUE, <<>>)
    ELSE Ret(Ok(0), d, exc, FALSE, <<>>)

Panic(exc) == [tag |-> "Panic", val |-> NULL, err |-> exc]

---------------------------------------------------------------------------
(* dict.rs: impl PyDict *)

\* PyDict::new: cast_from_ptr aborts on a null pointer
new(oom) ==
    LET r == PyDict_New(oom) IN
    IF r.null THEN Ret(Panic(r.exc), <<>>, "none", TRUE, <<>>)
    ELSE Ret(Ok(DictAddr), r.dict, r.exc, FALSE, <<>>)

\* PyDict::copy: cast_from_ptr_or_err
copy(d, oom) ==
    LET r == PyDict_Copy(d, oom) IN
    IF r.null
    THEN Ret(Err(PyErr_fetch(r.exc).err), d, PyErr_fetch(r.exc).pyerr, TRUE, <<>>)
    ELSE Ret(Ok(DictAddr), d, r.exc, FALSE, r.dict)

\* PyDict::clear
clear(d) == Ret(Ok(0), PyDict_Clear(d), "none", FALSE, <<>>)

\* PyDict::len: PyDict_Size is never negative for a mapping, so the cast to
\* usize keeps the value
len(d) == PyDict_Size(d)

\* PyDict::contains
contains_swallow(d, key) ==
    LET r == PyDict_Contains(d, key) IN
    Ret(Ok(r.ret = 1), d, "none", r.ret = -1, <<>>)
contains(d, key) ==
    LET r == PyDict_Contains(d, key) IN
    IF r.ret = 1 THEN Ret(Ok(TRUE), d, r.exc, FALSE, <<>>)
    ELSE IF r.ret = 0 THEN Ret(Ok(FALSE), d, r.exc, FALSE, <<>>)
    ELSE Ret(Err(PyErr_fetch(r.exc).err), d, PyErr_fetch(r.exc).pyerr, TRUE, <<>>)

\* PyDict::get_item: cast_from_borrowed_ptr_or_opt
get_item(d, key) ==
    LET r == PyDict_GetItem(d, key) IN
    IF r.ptr = NULL
    THEN Ret([tag |-> "None", val |-> NULL, err |-> "none"], d, "none", r.error, <<>>)
    ELSE Ret([tag |-> "Some", val |-> r.ptr, err |-> "none"], d, "none", r.error, <<>>)

\* PyDict::set_item
set_item_swapped(d, key, value, oom) ==
    LET r == PyDict_SetItem(d, value, key, oom) IN
    error_on_minusone(r.ret, r.exc, r.dict)
set_item(d, key, value, oom) ==
    LET r == PyDict_SetItem(d, key, value, oom) IN
    error_on_minusone(r.ret, r.exc, r.dict)

\* PyDict::del_item
del_item_clear(d, key) ==
    LET r == PyDict_DelItem(d, key) IN
    error_on_minusone(r.ret, r.exc, IF r.ret = 0 THEN PyDict_Clear(d) ELSE d)
del_item_unchecked(d, key) ==
    LET r == PyDict_DelItem(d, key) IN
    Ret(Ok(0), r.dict, "none", r.ret = -1, <<>>)
del_item(d, key) ==
    LET r == PyDict_DelItem(d, key) IN
    error_on_minusone(r.ret, r.exc, r.dict)

\* PyDict::items_list: cast_from_ptr aborts on a null pointer
items_list(d, oom) ==
    LET r == PyDict_Items(d, oom) IN
    IF r.null THEN Ret(Panic(r.exc), d, "none", TRUE, <<>>)
    ELSE Ret(Ok(0), d, r.exc, FALSE, r.list)

\* PyDict::items: the while loop over PyDict_Next
RECURSIVE items_loop_skip(_, _, _)
items_loop_skip(d, pos, vec) ==
    LET r == PyDict_Next(d, pos + 1) IN
    IF r.ret # 0
    THEN items_loop_skip(d, r.pos, Append(vec, <<r.key, r.value>>))
    ELSE vec
RECURSIVE items_loop(_, _, _)
items_loop(d, pos, vec) ==
    LET r == PyDict_Next(d, pos) IN
    IF r.ret # 0
    THEN items_loop(d, r.pos, Append(vec, <<r.key, r.value>>))
    ELSE vec

items(d) == Ret(Ok(0), d, "none", FALSE, items_loop(d, 0, <<>>))

---------------------------------------------------------------------------
(* dict.rs: impl ToPyObject for HashMap / BTreeMap *)

EmptyMap == [k \in {} |-> FirstVal]

\* the orders in which a container with key set S may be iterated
Orders(S) ==
    {s \in [1..Cardinality(S) -> S] : \A i, j \in 1..Cardinality(S) : i # j => s[i] # s[j]}

\* BTreeMap iterates in ascending key order
SortedOrder(S) ==
    CHOOSE s \in Orders(S) : \A i, j \in 1..Cardinality(S) : i < j => s[i] < s[j]

\* for (key, value) in self { dict.set_item(key, value).expect(..) }; dict.into()
\* `calls` collects the set_item calls made; oomAt is the allocation the foreign
\* runtime fails for want of memory (0: PyDict_New, i: the i-th set_item, -1: none)
RECURSIVE to_object_loop_skip(_, _, _, _, _, _)
to_object_loop_skip(m, ord, i, d, calls, oomAt) ==
    IF i >= Len(ord) THEN Ret(Ok(DictAddr), d, "none", FALSE, calls)
    ELSE LET key == i32_to_object(ord[i + 1])
             value == i32_to_object(m[ord[i + 1]])
             r == set_item(d, key, value, oomAt = i + 1)
         IN  IF r.res.tag = "Err"
             THEN Ret(Panic(r.res.err), d, r.pyerr, TRUE, Append(calls, <<key, value>>))
             ELSE to_object_loop_skip(m, ord, i + 1, r.dict, Append(calls, <<key, value>>), oomAt)
RECURSIVE to_object_loop(_, _, _, _, _, _)
to_object_loop(m, ord, i, d, calls, oomAt) ==
    IF i > Len(ord) THEN Ret(Ok(DictAddr), d, "none", FALSE, calls)
    ELSE LET key == i32_to_object(ord[i])
             value == i32_to_object(m[ord[i]])
             r == set_item(d, key, value, oomAt = i)
         IN  IF r.res.tag = "Err"
             THEN Ret(Panic(r.res.err), d, r.pyerr, TRUE, Append(calls, <<key, value>>))
             ELSE to_object_loop(m, ord, i + 1, r.dict, Append(calls, <<key, value>>), oomAt)

\* impl ToPyObject for HashMap: the iteration order `ord` is unspecified
HashMap_to_object(m, ord, oomAt) ==
    LET n == new(oomAt = 0) IN
    IF n.res.tag = "Panic" THEN n
    ELSE to_object_loop(m, ord, 1, n.dict, <<>>, oomAt)

\* impl ToPyObject for BTreeMap
BTreeMap_to_object(m, oomAt) ==
    LET n == new(oomAt = 0) IN
    IF n.res.tag = "Panic" THEN n
    ELSE to_object_loop(m, SortedOrder(DOMAIN m), 1, n.dict, <<>>, oomAt)

---------------------------------------------------------------------------
(* The calls a holder of the mapping and of the host container can make *)

KeyPtrs == {i32_to_object(k) : k \in Keys} \cup {MapKeyAddr}
ValPtrs == {i32_to_object(x) : x \in Vals}

BoolUnchanged == UNCHANGED <<refcnt, handles, owned>>

Call(op, key, value, x, r) ==
    [op |-> op, key |-> key, value |-> value, x |-> x, pre |-> dict,
     res |-> r.res, failed |-> r.failed, list |-> r.list]

\* a conversion that aborts hands nothing back to its caller
Conversion(op, ord, r) ==
    IF r.res.tag = "Ok"
    THEN [op |-> op, res |-> r.res, failed |-> r.failed, list |-> r.list,
          src |-> v, ord |-> ord]
    ELSE [op |-> op, res |-> r.res, failed |-> r.failed, list |-> <<>>,
          src |-> v, ord |-> <<>>]

\* v.insert(k, x) on the host container
HostInsert(k, x) ==
    /\ v' = [kk \in DOMAIN v \cup {k} |-> IF kk = k THEN x ELSE v[kk]]
    /\ v' # v
    /\ converted' = FALSE
    /\ last' = [op |-> "insert", key |-> k, x |-> x]
    /\ UNCHANGED <<dict, pyerr>>
    /\ BoolUnchanged

New(oom) ==
    LET r == new(oom) IN
    /\ dict' = IF r.res.tag = "Ok" THEN r.dict ELSE dict
    /\ converted' = IF r.res.tag = "Ok" THEN FALSE ELSE converted
    /\ pyerr' = r.pyerr
    /\ last' = Call("new", NULL, NULL, 0, r)
    /\ UNCHANGED v
    /\ BoolUnchanged

HashMapToObject(ord, oomAt) ==
    LET r == HashMap_to_object(v, ord, oomAt) IN
    /\ dict' = IF r.res.tag = "Ok" THEN r.dict ELSE dict
    /\ converted' = IF r.res.tag = "Ok" THEN TRUE ELSE converted
    /\ pyerr' = r.pyerr
    /\ last' = Conversion("HashMap_to_object", ord, r)
    /\ UNCHANGED v
    /\ BoolUnchanged

BTreeMapToObject(oomAt) ==
    LET r == BTreeMap_to_object(v, oomAt) IN
    /\ dict' = IF r.res.tag = "Ok" THEN r.dict ELSE dict
    /\ converted' = IF r.res.tag = "Ok" THEN TRUE ELSE converted
    /\ pyerr' = r.pyerr
    /\ last' = Conversion("BTreeMap_to_object", SortedOrder(DOMAIN v), r)
    /\ UNCHANGED v
    /\ BoolUnchanged

\* a call on the mapping held: it leaves r.dict and r.pyerr behind
OnDict(op, key, value, x, r) ==
    /\ dict' = r.dict
    /\ pyerr' = r.pyerr
    /\ last' = Call(op, key, value, x, r)
    /\ UNCHANGED <<v, converted>>
    /\ BoolUnchanged

Copy(oom) == OnDict("copy", NULL, NULL, 0, copy(dict, oom))

Clear == OnDict("clear", NULL, NULL, 0, clear(dict))

Len_ ==
    OnDict("len", NULL, NULL, 0,
           Ret([tag |-> "usize", val |-> len(dict), err |-> "none"], dict, "none", FALSE, <<>>))

Contains(key) == OnDict("contains", key, NULL, 0, contains(dict, key))

GetItem(key) == OnDict("get_item", key, NULL, 0, get_item(dict, key))

SetItem_writes_host(key, x, oom) ==
    LET r == set_item(dict, key, i32_to_object(x), oom) IN
    /\ dict' = r.dict
    /\ pyerr' = r.pyerr
    /\ last' = Call("set_item", key, i32_to_object(x), x, r)
    /\ v' = IF r.res.tag = "Ok" /\ Py_TYPE(key) = "int"
            THEN [kk \in DOMAIN v \cup {key - IntBase} |->
                     IF kk = key - IntBase THEN x ELSE v[kk]]
            ELSE v
    /\ UNCHANGED converted
    /\ BoolUnchanged
SetItem(key, x, oom) ==
    OnDict("set_item", key, i32_to_object(x), x, set_item(dict, key, i32_to_object(x), oom))

DelItem(key) == OnDict("del_item", key, NULL, 0, del_item(dict, key))

ItemsList(oom) == OnDict("items_list", NULL, NULL, 0, items_list(dict, oom))

Items == OnDict("items", NULL, NULL, 0, items(dict))

InitBool ==
    /\ refcnt = [p \in Singletons |-> InitRef]
    /\ handles = [p \in Singletons |-> 0]
    /\ owned = [p \in Singletons |-> 0]

\* the host container is empty (HashMap::new()) and the caller holds a fresh
\* empty mapping (PyDict::new)
Init ==
    /\ InitBool
    /\ v = EmptyMap
    /\ dict = <<>>
    /\ pyerr = "none"
    /\ converted = FALSE
    /\ last = [op |-> "init"]

NextBool ==
    \/ \E b \in BOOLEAN : ToObject(b)
    \/ \E b \in BOOLEAN : WithBorrowedPtr(b)
    \/ \E b \in BOOLEAN : PyBool_new(b)
    \/ \E b \in BOOLEAN : IntoObject(b)
    \/ \E p \in Singletons : DropHandle(p)
    \/ ReleasePool
    \/ \E p \in Objects : Extract(p)

SpecBool == Init /\ [][NextBool]_vars

\* the methods of PyDict, called on the mapping held
Next ==
    \/ \E oom \in BOOLEAN : New(oom)
    \/ \E oom \in BOOLEAN : Copy(oom)
    \/ Clear
    \/ Len_
    \/ \E key \in KeyPtrs : Contains(key)
    \/ \E key \in KeyPtrs : GetItem(key)
    \/ \E key \in KeyPtrs, x \in Vals, oom \in BOOLEAN : SetItem(key, x, oom)
    \/ \E key \in KeyPtrs : DelItem(key)
    \/ \E oom \in BOOLEAN : ItemsList(oom)
    \/ Items

Spec == Init /\ [][Next]_vars

\* a host container is filled, converted, and the product is mutated
NextConv ==
    \/ \E k \in Keys, x \in Vals : HostInsert(k, x)
    \/ \E ord \in Orders(DOMAIN v), oomAt \in -1..Cardinality(DOMAIN v) :
          HashMapToObject(ord, oomAt)
    \/ \E oomAt \in -1..Cardinality(DOMAIN v) : BTreeMapToObject(oomAt)
    \/ Clear
    \/ \E key \in KeyPtrs, x \in Vals, oom \in BOOLEAN : SetItem(key, x, oom)
    \/ \E key \in KeyPtrs : DelItem(key)

SpecConv == Init /\ [][NextConv]_vars

---------------------------------------------------------------------------
(* Properties *)

\* C1: Boolean round-trip.  bool::to_object(b) returns a handle to the fixed
\* singleton for b and never to the other one, and extracting a host boolean
\* from that handle succeeds and yields b; is_true holds exactly for the
\* true singleton.
C1_BoolRoundTrip ==
    last.op = "to_object" =>
        /\ last.ptr = (IF last.arg THEN Py_True ELSE Py_False)
        /\ last.ptr # (IF last.arg THEN Py_False ELSE Py_True)
        /\ handles[last.ptr] > 0
        /\ extract_bool(last.ptr).tag = "Ok"
        /\ extract_bool(last.ptr).val = last.arg
        /\ is_true(last.ptr) <=> (last.ptr = Py_True)

C1_Witness ==
    /\ last.op = "to_object"
    /\ last.arg = FALSE
    /\ last.ptr = Py_False
    /\ handles[Py_True] > 0

\* C8: Boolean extraction is strict.  Extracting a host boolean succeeds if
\* and only if the object is one of the two boolean singletons; for every
\* other object (integers, mappings) it returns a TypeError and no boolean.
C8_StrictExtract ==
    last.op = "extract" =>
        /\ (last.res.tag = "Ok") <=> (last.ptr \in {Py_False, Py_True})
        /\ PyBool_Check(last.ptr) <=> (last.ptr \in {Py_False, Py_True})
        /\ last.res.tag = "Ok" => (last.res.val <=> (last.ptr = Py_True))
        /\ last.res.tag # "Ok" => (last.res.tag = "Err" /\ last.res.err = "TypeError")

C8_Witness ==
    /\ last.op = "extract"
    /\ last.ptr = IntObj(1)
    /\ last.res.tag = "Err"

\* C10: Reference-count balance of the boolean conversions.  After any
\* sequence of to_object, into_object, with_borrowed_ptr, PyBool::new, drops
\* of handles and releases of the token's scope, each singleton's count is
\* its initial count plus the number of live handles to it, and it is never
\* below its initial count.
C10_RefcountBalance ==
    \A p \in Singletons :
        /\ refcnt[p] = InitRef + handles[p]
        /\ refcnt[p] >= InitRef

\* C2: Container conversion content.  A completed to_object(m) yields a
\* mapping whose length is the number of entries of m, that contains every
\* key of m with a value extracting to m[k] and no other key, and that was
\* built from an empty mapping by one set_item per entry in iteration order
\* (ascending key order for BTreeMap).
C2_ConversionContent ==
    (last.op \in {"HashMap_to_object", "BTreeMap_to_object"} /\ last.res.tag = "Ok") =>
        LET m == last.src
            ord == last.ord
            n == Cardinality(DOMAIN m)
        IN  /\ len(dict) = n
            /\ \A k \in DOMAIN m :
                  /\ contains(dict, i32_to_object(k)).res.tag = "Ok"
                  /\ contains(dict, i32_to_object(k)).res.val
                  /\ get_item(dict, i32_to_object(k)).res.tag = "Some"
                  /\ extract_i32(get_item(dict, i32_to_object(k)).res.val).tag = "Ok"
                  /\ extract_i32(get_item(dict, i32_to_object(k)).res.val).val = m[k]
            /\ \A k \in Keys \ DOMAIN m :
                  /\ contains(dict, i32_to_object(k)).res.tag = "Ok"
                  /\ ~contains(dict, i32_to_object(k)).res.val
                  /\ get_item(dict, i32_to_object(k)).res.tag = "None"
            /\ ord \in Orders(DOMAIN m)
            /\ Len(last.list) = n
            /\ \A i \in 1..n :
                  last.list[i] = <<i32_to_object(ord[i]), i32_to_object(m[ord[i]])>>
            /\ dict = last.list
            /\ last.op = "BTreeMap_to_object" =>
                  \A i, j \in 1..n : i < j => ord[i] < ord[j]

C2_Witness ==
    /\ last.op = "HashMap_to_object"
    /\ last.res.tag = "Ok"
    /\ Cardinality(DOMAIN last.src) = 2
    /\ last.ord[1] > last.ord[2]

\* C3: Mutation isolation.  Once the mapping held is the product of
\* to_object(v), no set_item, del_item or clear on it changes v.
C3_MutationIsolation ==
    [][(converted /\ last'.op \in {"set_item", "del_item", "clear"}) => v' = v]_vars

C3_Witness ==
    /\ converted
    /\ last.op = "set_item"
    /\ last.res.tag = "Ok"
    /\ \E k \in DOMAIN v :
          /\ get_item(dict, i32_to_object(k)).res.tag = "Some"
          /\ get_item(dict, i32_to_object(k)).res.val # i32_to_object(v[k])
    /\ \E k \in Keys \ DOMAIN v : get_item(dict, i32_to_object(k)).res.tag = "Some"

\* C4: set_item updates or inserts.  After a successful set_item(k, x),
\* get_item(k) extracts to x, every other key has the value it had, and the
\* length grew by one if k was absent and is unchanged if k was present.
C4_SetItem ==
    (last.op = "set_item" /\ last.res.tag = "Ok") =>
        /\ get_item(dict, last.key).res.tag = "Some"
        /\ extract_i32(get_item(dict, last.key).res.val).tag = "Ok"
        /\ extract_i32(get_item(dict, last.key).res.val).val = last.x
        /\ \A k \in KeyPtrs \ {last.key} :
              get_item(dict, k).res = get_item(last.pre, k).res
        /\ contains(last.pre, last.key).res.tag = "Ok"
        /\ len(dict) = len(last.pre)
                       + (IF contains(last.pre, last.key).res.val THEN 0 ELSE 1)

C4_Witness ==
    /\ last.op = "set_item"
    /\ last.res.tag = "Ok"
    /\ Len(last.pre) = 2
    /\ Len(dict) = 2
    /\ dict # last.pre

\* C5: Deleting a present key.  del_item(k) on a mapping that contains k
\* succeeds, the length drops by one, k is absent afterwards and every other
\* key keeps its value.
C5_DelPresent ==
    (/\ last.op = "del_item"
     /\ contains(last.pre, last.key).res.tag = "Ok"
     /\ contains(last.pre, last.key).res.val) =>
        /\ last.res.tag = "Ok"
        /\ len(dict) = len(last.pre) - 1
        /\ get_item(dict, last.key).res.tag = "None"
        /\ contains(dict, last.key).res.tag = "Ok"
        /\ ~contains(dict, last.key).res.val
        /\ \A k \in KeyPtrs \ {last.key} :
              get_item(dict, k).res = get_item(last.pre, k).res

C5_Witness ==
    /\ last.op = "del_item"
    /\ last.res.tag = "Ok"
    /\ Len(last.pre) = 2
    /\ Len(dict) = 1

\* C6: Deleting an absent key.  del_item(k) on a mapping that does not
\* contain k returns the error fetched from the foreign runtime (the
\* indicator is left clear), it neither succeeds nor aborts, and the mapping
\* is unchanged.
C6_DelAbsent ==
    (/\ last.op = "del_item"
     /\ contains(last.pre, last.key).res.tag = "Ok"
     /\ ~contains(last.pre, last.key).res.val) =>
        /\ last.res.tag = "Err"
        /\ last.res.err = "KeyError"
        /\ last.failed
        /\ pyerr = "none"
        /\ dict = last.pre
        /\ len(dict) = len(last.pre)

C6_Witness ==
    /\ last.op = "del_item"
    /\ last.res.tag = "Err"
    /\ last.res.err = "KeyError"
    /\ Len(last.pre) = 1

MappingOps ==
    {"len", "contains", "get_item", "set_item", "del_item", "copy", "items", "items_list"}

\* C7 as stated: every mapping operation whose foreign call signals failure
\* returns an explicit error value fetched from the foreign runtime.
C7_AllFailuresPropagate ==
    (last.op \in MappingOps /\ last.failed) =>
        (last.res.tag = "Err" /\ last.res.err # "none")

\* C7: Failure propagation, as the code has it.  contains, set_item, del_item
\* and copy return the fetched error when their foreign call fails, leaving
\* the indicator clear and the mapping as it was; get_item reports a failed
\* lookup as absent; items_list aborts; len and items never fail; and no
\* call that did not fail reports an error.
C7_FailurePropagation ==
    last.op \in MappingOps =>
        IF last.failed
        THEN \/ /\ last.op \in {"contains", "set_item", "del_item", "copy"}
                /\ last.res.tag = "Err"
                /\ last.res.err \in {"TypeError", "KeyError", "MemoryError"}
                /\ pyerr = "none"
                /\ dict = last.pre
             \/ /\ last.op = "get_item"
                /\ last.res.tag = "None"
             \/ /\ last.op = "items_list"
                /\ last.res.tag = "Panic"
        ELSE last.res.tag \notin {"Err", "Panic"}

C7_Witness ==
    /\ last.op = "contains"
    /\ last.failed
    /\ last.res.tag = "Err"
    /\ last.res.err = "TypeError"

Count(list, e) == Cardinality({i \in 1..Len(list) : list[i] = e})

\* C9: Items enumeration is complete and exact.  items() and items_list()
\* return as many pairs as the mapping has entries, each entry of the mapping
\* exactly once and nothing else, and leave the mapping unchanged.
C9_ItemsExact ==
    (last.op \in {"items", "items_list"} /\ last.res.tag = "Ok") =>
        /\ Len(last.list) = len(dict)
        /\ dict = last.pre
        /\ \A k \in KeyPtrs, x \in ValPtrs :
              Count(last.list, <<k, x>>) =
                  IF /\ get_item(dict, k).res.tag = "Some"
                     /\ get_item(dict, k).res.val = x
                  THEN 1 ELSE 0

C9_Witness ==
    /\ last.op = "items"
    /\ Len(last.list) = 2
    /\ last.list[1][1] > last.list[2][1]

=============================================================================
